---- MODULE Spec2Model ----
(***************************************************************************)
(* ArtaPay backend (src/index.ts): paymaster signing service and          *)
(* StableSwap quote / calldata helper.                                     *)
(*                                                                         *)
(* Two deployed variants of index.ts are modelled:                         *)
(*   "swap" - /health /signer /sign /swap/quote /swap/build, the signed    *)
(*            tuple carries isActivation (index.ts lines 1-301);           *)
(*   "sign" - /health /signer /sign only, four-field tuple (lines 303-445).*)
(*                                                                         *)
(* Integers of the program are arbitrary-precision (bigint).  An integer   *)
(* is represented as [hi, lo], denoting hi * 2^256 + lo, so that the       *)
(* uint256 range check of the ABI encoder is exact.                        *)
(***************************************************************************)
EXTENDS Integers, Sequences, FiniteSets, TLC

\* ---------------------------------------------------------------------
\* Bounds of the model
\* ---------------------------------------------------------------------
\* number of quote requests that may be suspended on the RPC read at once
MaxPending == 2
\* longest string handed to requireAmount in SpecAmount
MaxStrLen == 3

\* ---------------------------------------------------------------------
\* Program constants
\* ---------------------------------------------------------------------
\* validUntil default: Date.now()/1000 + 3600
DefaultValidity == 3600
\* retryCount of viem's http() transport when none is passed
RetryCount == 3
\* numeric chain ids of the registry
BaseChainId == 84532
EtherlinkChainId == 127823

\* ---------------------------------------------------------------------
\* Integers: [hi, lo] denotes hi * 2^256 + lo
\* ---------------------------------------------------------------------
Int256(hi, lo) == [hi |-> hi, lo |-> lo]
Small(n) == Int256(0, n)
\* bi <= 0n
IsNonPositive(bi) == bi.hi < 0 \/ (bi.hi = 0 /\ bi.lo <= 0)
\* 0 <= bi < 2^256, the range of uint256
InUint256(bi) == bi.hi = 0 /\ bi.lo >= 0

\* ---------------------------------------------------------------------
\* JavaScript values that reach the numeric fields of a request
\* ---------------------------------------------------------------------
JsUndefined == [t |-> "undefined", s |-> <<>>, n |-> Small(0), whole |-> TRUE, b |-> FALSE]
JsNull == [t |-> "null", s |-> <<>>, n |-> Small(0), whole |-> TRUE, b |-> FALSE]
JsObject == [t |-> "object", s |-> <<>>, n |-> Small(0), whole |-> TRUE, b |-> FALSE]
JsString(s) == [t |-> "string", s |-> s, n |-> Small(0), whole |-> TRUE, b |-> FALSE]
\* an integral number
JsNumber(hi, lo) == [t |-> "number", s |-> <<>>, n |-> Int256(hi, lo), whole |-> TRUE, b |-> FALSE]
\* a number with a fractional part, lo + 0.5
JsFraction(lo) == [t |-> "number", s |-> <<>>, n |-> Small(lo), whole |-> FALSE, b |-> FALSE]
JsBigInt(hi, lo) == [t |-> "bigint", s |-> <<>>, n |-> Int256(hi, lo), whole |-> TRUE, b |-> FALSE]
JsBoolean(b) == [t |-> "boolean", s |-> <<>>, n |-> Small(0), whole |-> TRUE, b |-> b]

\* ToBoolean(v) of the language, as used by `!v` and `v || d`
Truthy(v) ==
    CASE v.t = "undefined" -> FALSE
      [] v.t = "null" -> FALSE
      [] v.t = "string" -> v.s # <<>>
      [] v.t = "number" -> ~(v.whole /\ v.n = Small(0))
      [] v.t = "bigint" -> v.n # Small(0)
      [] v.t = "boolean" -> v.b
      [] OTHER -> TRUE

\* ---------------------------------------------------------------------
\* BigInt(value): StringToBigInt and the numeric conversions
\* ---------------------------------------------------------------------
Chars == {"0", "1", "-", " ", "a", "x", "."}
DecDigits == {"0", "1", "2", "3", "4", "5", "6", "7", "8", "9"}
HexDigits == DecDigits \cup {"a", "b", "c", "d", "e", "f"}

DigitVal(c) ==
    CASE c = "0" -> 0 [] c = "1" -> 1 [] c = "2" -> 2 [] c = "3" -> 3
      [] c = "4" -> 4 [] c = "5" -> 5 [] c = "6" -> 6 [] c = "7" -> 7
      [] c = "8" -> 8 [] c = "9" -> 9 [] c = "a" -> 10 [] c = "b" -> 11
      [] c = "c" -> 12 [] c = "d" -> 13 [] c = "e" -> 14 [] c = "f" -> 15
      [] OTHER -> 0

RECURSIVE TrimStart(_)
TrimStart(s) == IF s # <<>> /\ Head(s) = " " THEN TrimStart(Tail(s)) ELSE s

RECURSIVE TrimEnd(_)
TrimEnd(s) ==
    IF s # <<>> /\ s[Len(s)] = " " THEN TrimEnd(SubSeq(s, 1, Len(s) - 1)) ELSE s

Trim(s) == TrimEnd(TrimStart(s))

AllIn(s, digits) == s # <<>> /\ \A i \in 1..Len(s) : s[i] \in digits

RECURSIVE DigitsValue(_, _)
DigitsValue(s, base) ==
    IF s = <<>> THEN 0
    ELSE DigitsValue(SubSeq(s, 1, Len(s) - 1), base) * base + DigitVal(s[Len(s)])

Thrown(name) == [ok |-> FALSE, v |-> Small(0), err |-> name]
Value(bi) == [ok |-> TRUE, v |-> bi, err |-> ""]

StringToBigInt(s) ==
    LET t == Trim(s) IN
    IF t = <<>> THEN Value(Small(0))
    ELSE IF AllIn(t, DecDigits) THEN Value(Small(DigitsValue(t, 10)))
    ELSE IF Head(t) \in {"-", "+"} /\ AllIn(Tail(t), DecDigits)
        THEN Value(Small(IF Head(t) = "-" THEN 0 - DigitsValue(Tail(t), 10)
                                          ELSE DigitsValue(Tail(t), 10)))
    ELSE IF Len(t) > 2 /\ t[1] = "0" /\ t[2] = "x" /\ AllIn(SubSeq(t, 3, Len(t)), HexDigits)
        THEN Value(Small(DigitsValue(SubSeq(t, 3, Len(t)), 16)))
    ELSE Thrown("SyntaxError")

\* BigInt(v) for any value v
ToBigInt(v) ==
    CASE v.t = "string" -> StringToBigInt(v.s)
      [] v.t = "number" -> IF v.whole THEN Value(v.n) ELSE Thrown("RangeError")
      [] v.t = "bigint" -> Value(v.n)
      [] v.t = "boolean" -> Value(Small(IF v.b THEN 1 ELSE 0))
      [] v.t = "object" -> Thrown("SyntaxError")
      [] OTHER -> Thrown("TypeError")

\* ---------------------------------------------------------------------
\* requireAmount (index.ts 139-158)
\* ---------------------------------------------------------------------
RequireAmountTypes == {"string", "number", "bigint", "boolean"}

requireAmount(value) ==
    IF value.t \in {"undefined", "null"} THEN Thrown("is required")
    ELSE IF value.t \notin RequireAmountTypes
        THEN Thrown("must be a positive integer string/number")
    ELSE LET bi == ToBigInt(value) IN
         IF ~bi.ok \/ IsNonPositive(bi.v)
            THEN Thrown("must be a positive integer string/number")
            ELSE Value(bi.v)

\* ---------------------------------------------------------------------
\* Values that reach the address fields of a request.
\* A 0x string is identified by the 20 bytes it denotes (id) and by its
\* letter case (form):
\*   "lower"    all-lowercase hex
\*   "checksum" EIP-55 checksummed
\*   "badsum"   mixed case that is not the EIP-55 checksum
\*   "malformed" not 0x + 40 hex digits;  "empty" the empty string
\* ---------------------------------------------------------------------
AddrUndefined == [t |-> "undefined", id |-> "", form |-> ""]
AddrNull == [t |-> "null", id |-> "", form |-> ""]
AddrNumber == [t |-> "number", id |-> "", form |-> "nonzero"]
AddrString(id, form) == [t |-> "string", id |-> id, form |-> form]
AddrMalformed == AddrString("", "malformed")
AddrEmpty == AddrString("", "empty")

AddrTruthy(a) ==
    CASE a.t = "undefined" -> FALSE
      [] a.t = "null" -> FALSE
      [] a.t = "string" -> a.form # "empty"
      [] a.t = "number" -> a.form # "zero"
      [] OTHER -> TRUE

\* viem isAddress(a, {strict}): the regex, then (strict only) the checksum
isAddress(a, strict) ==
    /\ a.t = "string"
    /\ a.form \in {"lower", "checksum", "badsum"}
    /\ (strict => a.form # "badsum")

AddrThrown(name) == [ok |-> FALSE, a |-> AddrUndefined, err |-> name]
AddrValue(a) == [ok |-> TRUE, a |-> a, err |-> ""]

\* viem getAddress: non-strict check, then the checksummed spelling
getAddress(a) ==
    IF ~isAddress(a, FALSE) THEN AddrThrown("InvalidAddressError")
    ELSE AddrValue(AddrString(a.id, "checksum"))

\* requireAddress (index.ts 132-137)
requireAddress(addr) ==
    IF addr.t # "string" THEN AddrThrown("is required")
    ELSE getAddress(addr)

\* ---------------------------------------------------------------------
\* Hashing and signing.  Hashes and signatures are kept symbolic and
\* injective: a value records exactly what it was computed from.
\* ---------------------------------------------------------------------
EIP191Prefix == "\\x19Ethereum Signed Message:\\n32"

EncThrown(name) == [ok |-> FALSE, data |-> <<>>, err |-> name]
EncValue(data) == [ok |-> TRUE, data |-> data, err |-> ""]

\* encodeAbiParameters("address, address, uint256, uint256[, bool]", values):
\* every address passes the strict isAddress, every uint256 the range check
encodeAbiParameters(withFlag, payer, token, validUntil, validAfter, isActivation) ==
    IF ~isAddress(payer, TRUE) \/ ~isAddress(token, TRUE)
        THEN EncThrown("InvalidAddressError")
    ELSE IF ~InUint256(validUntil) \/ ~InUint256(validAfter)
        THEN EncThrown("IntegerOutOfRangeError")
    ELSE IF withFlag
        THEN EncValue(<<payer.id, token.id, validUntil, validAfter, isActivation>>)
        ELSE EncValue(<<payer.id, token.id, validUntil, validAfter>>)

keccak256(data) == [keccak |-> data]

\* the 32 bytes handed to ECDSA: keccak256(prefix ++ digest); the empty
\* prefix stands for the digest itself, not hashed again
RawHash(digest) == [prefix |-> "", digest |-> digest]
hashMessage(digest) == [prefix |-> EIP191Prefix, digest |-> digest]

ecdsaSign(key, hash) == [signer |-> key, over |-> hash]

\* viem LocalAccount.signMessage({message: {raw}}): sign(hashMessage(message))
signRawDigest(account, digest) == ecdsaSign(account.key, RawHash(digest))

signMessage(account, digest) == ecdsaSign(account.key, hashMessage(digest))

\* privateKeyToAccount
ValidKeys == {"0xkey1", "0xkey2"}
NoAccount == [address |-> "", key |-> ""]
publicKeyToAddress(key) == IF key = "0xkey1" THEN "0xSigner1" ELSE "0xSigner2"
privateKeyToAccount(key) == [address |-> publicKeyToAddress(key), key |-> key]

SigThrown(name) == [ok |-> FALSE, sig |-> ecdsaSign("", RawHash(keccak256(<<>>))), err |-> name]
SigValue(sig) == [ok |-> TRUE, sig |-> sig, err |-> ""]

\* signPaymasterData (index.ts 103-130 with the flag, 355-375 without)
signPaymasterData(account, withFlag, payerAddress, tokenAddress, validUntil, validAfter, isActivation) ==
    LET vu == ToBigInt(validUntil)
        va == ToBigInt(validAfter)
    IN  IF ~vu.ok THEN SigThrown(vu.err)
        ELSE IF ~va.ok THEN SigThrown(va.err)
        ELSE LET enc == encodeAbiParameters(withFlag, payerAddress, tokenAddress,
                                            vu.v, va.v, isActivation)
             IN  IF ~enc.ok THEN SigThrown(enc.err)
                 ELSE SigValue(signMessage(account, keccak256(enc.data)))

\* ---------------------------------------------------------------------
\* State
\* ---------------------------------------------------------------------
VARIABLES
    variant,        \* which index.ts is deployed: "swap" or "sign"
    env,            \* process.env: PRIVATE_KEY, RPC_URL, STABLE_SWAP_ADDRESS
    proc,           \* "loading", "listening", "exited" (process.exit(1)), "crashed"
    signerAccount,  \* const signerAccount
    pending,        \* quote handlers suspended on await readContract, per slot
    req,            \* the request of the latest completed exchange
    res,            \* the response of the latest completed exchange
    reads,          \* reads sent to the RPC endpoint for that request
    rpc,            \* the reply that ended that request's last read
    arg,            \* SpecAmount / SpecChain: input of the function
    ret             \* SpecAmount / SpecChain: its result

vars == <<variant, env, proc, signerAccount, pending, req, res, reads, rpc, arg, ret>>

Variants == {"swap", "sign"}
\* the empty string stands for a variable that is unset or set to ""
EnvKeys == {"", "not-a-key"} \cup ValidKeys
EnvUrls == {"", "https://rpc"}
EnvAddrs == {"", "0xStableSwap"}
Slots == 1..MaxPending

Idle == [st |-> "idle"]
NoReq == [route |-> "none"]
NoRes == [status |-> 0]
NoReply == [kind |-> "none", code |-> 0, reason |-> "", data |-> <<>>]
NoArg == [t |-> "none"]

\* ---------------------------------------------------------------------
\* Module load: configuration checks, signer account, app.listen
\* (index.ts 33-56 and 293; 331-339 and 439)
\* ---------------------------------------------------------------------
MissingConfigKeyOnly(v, e) == e.PRIVATE_KEY = ""

MissingConfig(v, e) ==
    IF v = "swap"
        THEN e.PRIVATE_KEY = "" \/ e.RPC_URL = "" \/ e.STABLE_SWAP_ADDRESS = ""
        ELSE e.PRIVATE_KEY = ""

Boot ==
    /\ proc = "loading"
    /\ IF MissingConfig(variant, env)
          THEN proc' = "exited" /\ UNCHANGED signerAccount
       ELSE IF env.PRIVATE_KEY \notin ValidKeys
          THEN proc' = "crashed" /\ UNCHANGED signerAccount
       ELSE /\ signerAccount' = privateKeyToAccount(env.PRIVATE_KEY)
            /\ proc' = "listening"
    /\ UNCHANGED <<variant, env, pending, req, res, reads, rpc, arg, ret>>

\* ---------------------------------------------------------------------
\* GET /health, GET /signer (index.ts 164-177, 381-394)
\* ---------------------------------------------------------------------
Json(status, body) == [status |-> status, body |-> body]

HealthResponse(account) ==
    Json(200, [status |-> "ok", signerAddress |-> account.address,
               message |-> "Backend ready. Private key loaded."])

SignerResponseOfKey(account) ==
    Json(200, [signerAddress |-> account.key,
               note |-> "Add this address as authorized signer on Paymaster"])

SignerResponse(account) ==
    Json(200, [signerAddress |-> account.address,
               note |-> "Add this address as authorized signer on Paymaster"])

\* a request is answered: the exchange is recorded
Complete(request, response, sent, reply) ==
    /\ req' = request
    /\ res' = response
    /\ reads' = sent
    /\ rpc' = reply

\* a handler that answers without touching the RPC endpoint
Exchange(request, response) == Complete(request, response, 0, NoReply)

Health ==
    /\ proc = "listening"
    /\ Exchange([route |-> "/health"], HealthResponse(signerAccount))
    /\ UNCHANGED <<variant, env, proc, signerAccount, pending, arg, ret>>

Signer ==
    /\ proc = "listening"
    /\ Exchange([route |-> "/signer"], SignerResponse(signerAccount))
    /\ UNCHANGED <<variant, env, proc, signerAccount, pending, arg, ret>>

\* ---------------------------------------------------------------------
\* POST /sign (index.ts 190-222, 406-437)
\* ---------------------------------------------------------------------
MissingFieldsResponse ==
    Json(400, [error |-> "Missing required fields: payerAddress, tokenAddress"])

SignCatch(err) == Json(500, [error |-> "Signing failed", message |-> err])

\* validUntil || Math.floor(Date.now() / 1000) + 3600
ValidUntilOrDefault(validUntil, now) ==
    IF Truthy(validUntil) THEN validUntil ELSE JsNumber(0, now + DefaultValidity)

\* validAfter || 0
ValidAfterOrDefault(validAfter) ==
    IF Truthy(validAfter) THEN validAfter ELSE JsNumber(0, 0)

SignResponse(account, withFlag, body, now) ==
    IF ~AddrTruthy(body.payerAddress) \/ ~AddrTruthy(body.tokenAddress)
        THEN MissingFieldsResponse
    ELSE LET signed == signPaymasterData(account, withFlag,
                            body.payerAddress, body.tokenAddress,
                            ValidUntilOrDefault(body.validUntil, now),
                            ValidAfterOrDefault(body.validAfter),
                            Truthy(body.isActivation))
         IN  IF signed.ok THEN Json(200, [signature |-> signed.sig])
                          ELSE SignCatch(signed.err)

PayerInputs ==
    {AddrUndefined, AddrNull, AddrEmpty, AddrNumber, AddrMalformed,
     AddrString("A", "lower"), AddrString("A", "checksum"), AddrString("A", "badsum")}
TokenInputs == {AddrUndefined, AddrMalformed, AddrString("B", "checksum")}
ValidUntilInputs ==
    {JsUndefined, JsNumber(0, 0), JsNumber(0, 1700000000), JsNumber(0, -1),
     JsFraction(1), JsString(<<"1", "0">>)}
ValidAfterInputs == {JsUndefined, JsNumber(0, 0), JsNumber(0, 5), JsNumber(1, 0)}
IsActivationInputs == {JsUndefined, JsBoolean(TRUE), JsBoolean(FALSE)}
NowValues == {1800000000}

\* requests that vary the addresses, and well-addressed requests that vary
\* the optional fields
SignBodies ==
    {[payerAddress |-> p, tokenAddress |-> t, validUntil |-> JsUndefined,
      validAfter |-> JsUndefined, isActivation |-> JsUndefined] :
        p \in PayerInputs, t \in TokenInputs}
    \cup
    {[payerAddress |-> AddrString("A", "lower"), tokenAddress |-> AddrString("B", "checksum"),
      validUntil |-> vu, validAfter |-> va, isActivation |-> act] :
        vu \in ValidUntilInputs, va \in ValidAfterInputs, act \in IsActivationInputs}

Sign ==
    /\ proc = "listening"
    /\ \E body \in SignBodies, now \in NowValues :
          \* the four-field variant never reads isActivation
          /\ variant = "sign" => body.isActivation = JsUndefined
          /\ Exchange([route |-> "/sign", body |-> body, now |-> now],
                      SignResponse(signerAccount, variant = "swap", body, now))
    /\ UNCHANGED <<variant, env, proc, signerAccount, pending, arg, ret>>

\* ---------------------------------------------------------------------
\* StableSwap ABI (index.ts 58-86) and viem's encoder
\* ---------------------------------------------------------------------
DigitChar(d) ==
    CASE d = 0 -> "0" [] d = 1 -> "1" [] d = 2 -> "2" [] d = 3 -> "3"
      [] d = 4 -> "4" [] d = 5 -> "5" [] d = 6 -> "6" [] d = 7 -> "7"
      [] d = 8 -> "8" [] OTHER -> "9"

RECURSIVE NatToString(_)
NatToString(n) ==
    IF n < 10 THEN DigitChar(n) ELSE NatToString(n \div 10) \o DigitChar(n % 10)

\* bigint.toString() of a value in the uint256 range the model represents
BigIntToString(bi) == NatToString(bi.lo)

encodeSwapAmountsExchanged(amountIn, tokenIn, tokenOut, minAmountOut) ==
    IF ~InUint256(amountIn) \/ ~InUint256(minAmountOut)
        THEN EncThrown("IntegerOutOfRangeError")
    ELSE IF ~isAddress(tokenIn, TRUE) \/ ~isAddress(tokenOut, TRUE)
        THEN EncThrown("InvalidAddressError")
    ELSE EncValue(<<"swap", minAmountOut, tokenIn.id, tokenOut.id, amountIn>>)

\* encodeFunctionData({abi, functionName: "swap", args}): selector and the
\* arguments in the order of the ABI inputs amountIn, tokenIn, tokenOut,
\* minAmountOut; a uint256 outside its range throws
encodeSwap(amountIn, tokenIn, tokenOut, minAmountOut) ==
    IF ~InUint256(amountIn) \/ ~InUint256(minAmountOut)
        THEN EncThrown("IntegerOutOfRangeError")
    ELSE IF ~isAddress(tokenIn, TRUE) \/ ~isAddress(tokenOut, TRUE)
        THEN EncThrown("InvalidAddressError")
    ELSE EncValue(<<"swap", amountIn, tokenIn.id, tokenOut.id, minAmountOut>>)

\* the eth_call payload of readContract({functionName: "getSwapQuote", args})
encodeGetSwapQuote(tokenIn, tokenOut, amountIn) ==
    IF ~isAddress(tokenIn, TRUE) \/ ~isAddress(tokenOut, TRUE)
        THEN EncThrown("InvalidAddressError")
    ELSE IF ~InUint256(amountIn)
        THEN EncThrown("IntegerOutOfRangeError")
    ELSE EncValue(<<"getSwapQuote", tokenIn.id, tokenOut.id, amountIn>>)

\* ---------------------------------------------------------------------
\* POST /swap/build (index.ts 263-291)
\* ---------------------------------------------------------------------
BuildCatch(err) == Json(400, [error |-> "build_failed", message |-> err])

BuildResponse(e, body) ==
    LET tokenIn == requireAddress(body.tokenIn)
        tokenOut == requireAddress(body.tokenOut)
        amountIn == requireAmount(body.amountIn)
        minAmountOut == requireAmount(body.minAmountOut)
    IN  IF ~tokenIn.ok THEN BuildCatch("tokenIn " \o tokenIn.err)
        ELSE IF ~tokenOut.ok THEN BuildCatch("tokenOut " \o tokenOut.err)
        ELSE IF ~amountIn.ok THEN BuildCatch("amountIn " \o amountIn.err)
        ELSE IF ~minAmountOut.ok THEN BuildCatch("minAmountOut " \o minAmountOut.err)
        ELSE LET data == encodeSwap(amountIn.v, tokenIn.a, tokenOut.a, minAmountOut.v)
             IN  IF ~data.ok THEN BuildCatch(data.err)
                 ELSE Json(200, [to |-> e.STABLE_SWAP_ADDRESS,
                                 data |-> data.data,
                                 value |-> "0",
                                 amountIn |-> BigIntToString(amountIn.v),
                                 minAmountOut |-> BigIntToString(minAmountOut.v),
                                 note |-> "Use this calldata in your smart account / wallet tx"])

\* where in the handler a /swap/build request fails, if it does
BuildFailsInValidation(body) ==
    \/ ~requireAddress(body.tokenIn).ok
    \/ ~requireAddress(body.tokenOut).ok
    \/ ~requireAmount(body.amountIn).ok
    \/ ~requireAmount(body.minAmountOut).ok

BuildTokenInputs ==
    {AddrUndefined, AddrMalformed, AddrString("A", "lower"), AddrString("A", "badsum")}
BuildTokenOutInputs == {AddrNumber, AddrString("B", "checksum")}
BuildAmountInputs ==
    {JsUndefined, JsNull, JsObject, JsBoolean(TRUE), JsBoolean(FALSE),
     JsNumber(0, 100), JsNumber(0, 0), JsNumber(0, -1), JsFraction(1),
     JsNumber(1, 0), JsNumber(1, 7),
     JsString(<<"1", "0", "0">>), JsString(<<"a", "b", "c">>), JsString(<<>>),
     JsString(<<"0", "x", "1", "0">>)}
BuildMinOutInputs ==
    {JsUndefined, JsNumber(0, 0), JsNumber(0, 99), JsNumber(1, 0), JsString(<<"9", "9">>)}

\* requests that vary the addresses, amountIn and minAmountOut in turn
BuildBodies ==
    {[tokenIn |-> i, tokenOut |-> o, amountIn |-> JsNumber(0, 100),
      minAmountOut |-> JsNumber(0, 99)] :
        i \in BuildTokenInputs, o \in BuildTokenOutInputs}
    \cup
    {[tokenIn |-> AddrString("A", "lower"), tokenOut |-> AddrString("B", "checksum"),
      amountIn |-> a, minAmountOut |-> JsNumber(0, 99)] : a \in BuildAmountInputs}
    \cup
    {[tokenIn |-> AddrString("A", "badsum"), tokenOut |-> AddrString("B", "checksum"),
      amountIn |-> JsString(<<"1", "0", "0">>), minAmountOut |-> m] : m \in BuildMinOutInputs}

SwapBuild ==
    /\ proc = "listening"
    /\ variant = "swap"
    /\ \E body \in BuildBodies :
          Exchange([route |-> "/swap/build", body |-> body], BuildResponse(env, body))
    /\ UNCHANGED <<variant, env, proc, signerAccount, pending, arg, ret>>

\* ---------------------------------------------------------------------
\* GET /swap/quote (index.ts 228-256) and the transport of publicClient
\* (index.ts 54-56: http(RPC_URL) with viem's default retryCount)
\* ---------------------------------------------------------------------
QuoteCatchAsServerFault(err) == Json(500, [error |-> "quote_failed", message |-> "Unknown error"])

QuoteCatch(err) == Json(400, [error |-> "quote_failed", message |-> err])

QuoteOk(tokenIn, tokenOut, amountIn, result) ==
    Json(200, [tokenIn |-> tokenIn, tokenOut |-> tokenOut,
               amountIn |-> BigIntToString(amountIn),
               amountOut |-> BigIntToString(result[1]),
               fee |-> BigIntToString(result[2]),
               totalUserPays |-> BigIntToString(result[3])])

\* replies of the RPC endpoint to one eth_call
Result(data) == [kind |-> "result", code |-> 0, reason |-> "", data |-> data]
RpcError(code, reason) == [kind |-> "rpc", code |-> code, reason |-> reason, data |-> <<>>]
HttpError(status, reason) == [kind |-> "http", code |-> status, reason |-> reason, data |-> <<>>]
Timeout == [kind |-> "timeout", code |-> 0, reason |-> "The request took too long to respond.", data |-> <<>>]

QuoteResults == {<<Small(99), Small(1), Small(101)>>}
Replies ==
    {Result(d) : d \in QuoteResults} \cup
    {RpcError(3, "execution reverted: unsupported pair"),
     RpcError(-32603, "Internal JSON-RPC error."),
     HttpError(503, "HTTP request failed. Status: 503"),
     HttpError(404, "HTTP request failed. Status: 404"),
     Timeout}

\* viem buildRequest shouldRetry
shouldRetry(reply) ==
    CASE reply.kind = "rpc" -> reply.code \in {-1, -32005, -32603}
      [] reply.kind = "http" -> reply.code \in {403, 408, 413, 429, 500, 502, 503, 504}
      [] OTHER -> TRUE

\* viem withRetry: retry while count < retryCount and shouldRetry
RetryAgainOffByOne(count, reply) == count <= RetryCount /\ shouldRetry(reply)

RetryAgain(count, reply) == count < RetryCount /\ shouldRetry(reply)

QuoteTokenInputs == {AddrUndefined, AddrMalformed, AddrString("A", "lower")}
QuoteTokenOutInputs == {AddrUndefined, AddrString("B", "checksum")}
QuoteAmountInputs ==
    {JsUndefined, JsObject, JsString(<<"1", "0", "0">>), JsString(<<"0">>),
     JsString(<<"-", "1">>), JsString(<<"1", ".", "5">>)}

\* queries that vary the addresses, and well-addressed ones that vary amountIn
QuoteQueries ==
    {[tokenIn |-> i, tokenOut |-> o, amountIn |-> JsString(<<"1", "0", "0">>)] :
        i \in QuoteTokenInputs \ {AddrString("A", "lower")}, o \in QuoteTokenOutInputs}
    \cup
    {[tokenIn |-> AddrString("A", "lower"), tokenOut |-> o, amountIn |-> a] :
        o \in QuoteTokenOutInputs, a \in QuoteAmountInputs}

\* the handler up to the await: validation, then the first read is sent
SwapQuote(slot) ==
    /\ proc = "listening"
    /\ variant = "swap"
    /\ pending[slot] = Idle
    /\ \E query \in QuoteQueries :
          LET request == [route |-> "/swap/quote", query |-> query]
              tokenIn == requireAddress(query.tokenIn)
              tokenOut == requireAddress(query.tokenOut)
              amountIn == requireAmount(query.amountIn)
              failed(err) == Exchange(request, QuoteCatch(err)) /\ UNCHANGED pending
          IN  IF ~tokenIn.ok THEN failed("tokenIn " \o tokenIn.err)
              ELSE IF ~tokenOut.ok THEN failed("tokenOut " \o tokenOut.err)
              ELSE IF ~amountIn.ok THEN failed("amountIn " \o amountIn.err)
              ELSE LET call == encodeGetSwapQuote(tokenIn.a, tokenOut.a, amountIn.v)
                   IN  IF ~call.ok THEN failed(call.err)
                       ELSE /\ pending' = [pending EXCEPT ![slot] =
                                   [st |-> "reading", request |-> request,
                                    tokenIn |-> tokenIn.a, tokenOut |-> tokenOut.a,
                                    amountIn |-> amountIn.v, call |-> call.data,
                                    count |-> 0, sent |-> 1]]
                            /\ UNCHANGED <<req, res, reads, rpc>>
    /\ UNCHANGED <<variant, env, proc, signerAccount, arg, ret>>

RetriedInPlace(p) == p

\* viem withRetry: the read is sent again with the attempt count advanced
Retried(p) == [p EXCEPT !.count = p.count + 1, !.sent = p.sent + 1]

\* the read in flight of a slot ends with a reply of the endpoint or with
\* the transport's timeout: the transport retries it, or readContract
\* settles and the handler answers
ReadEnds(slot, reply) ==
    /\ proc = "listening"
    /\ pending[slot] # Idle
    /\ LET p == pending[slot] IN
       IF reply.kind = "result"
           THEN /\ Complete(p.request,
                            QuoteOk(p.tokenIn, p.tokenOut, p.amountIn, reply.data),
                            p.sent, reply)
                /\ pending' = [pending EXCEPT ![slot] = Idle]
       ELSE IF RetryAgain(p.count, reply)
           THEN /\ pending' = [pending EXCEPT ![slot] = Retried(p)]
                /\ UNCHANGED <<req, res, reads, rpc>>
       ELSE /\ Complete(p.request, QuoteCatch(reply.reason), p.sent, reply)
            /\ pending' = [pending EXCEPT ![slot] = Idle]
    /\ UNCHANGED <<variant, env, proc, signerAccount, arg, ret>>

RpcReply(slot) == \E reply \in Replies : ReadEnds(slot, reply)

\* ---------------------------------------------------------------------
\* The service
\* ---------------------------------------------------------------------
Envs == [PRIVATE_KEY : EnvKeys, RPC_URL : EnvUrls, STABLE_SWAP_ADDRESS : EnvAddrs]

Init ==
    /\ variant \in Variants
    /\ env \in Envs
    /\ proc = "loading"
    /\ signerAccount = NoAccount
    /\ pending = [slot \in Slots |-> Idle]
    /\ req = NoReq
    /\ res = NoRes
    /\ reads = 0
    /\ rpc = NoReply
    /\ arg = NoArg
    /\ ret = NoArg

Next ==
    \/ Boot
    \/ Health
    \/ Signer
    \/ Sign
    \/ SwapBuild
    \/ \E slot \in Slots : SwapQuote(slot)
    \/ \E slot \in Slots : RpcReply(slot)

Spec == Init /\ [][Next]_vars

\* The quote endpoint under fairness.  The requests that interleave with a
\* suspended quote are further quotes, /health and /signer; /sign and
\* /swap/build answer in one step and neither read nor write `pending`.
QuoteNext ==
    \/ Boot
    \/ Health
    \/ Signer
    \/ \E slot \in Slots : SwapQuote(slot)
    \/ \E slot \in Slots : RpcReply(slot)

\* the transport arms a timer for every read it sends (viem http(): 10 s by
\* default), so a read the endpoint never answers ends by Timeout
FairSpec == Init /\ [][QuoteNext]_vars /\ \A slot \in Slots : WF_vars(ReadEnds(slot, Timeout))

\* ---------------------------------------------------------------------
\* requireAmount as a function of its input: SpecAmount
\* ---------------------------------------------------------------------
Strings == UNION {[1..n -> Chars] : n \in 0..MaxStrLen}

AmountValues ==
    {JsUndefined, JsNull, JsObject, JsBoolean(TRUE), JsBoolean(FALSE), JsFraction(1)}
    \cup {JsString(s) : s \in Strings}
    \cup {JsNumber(hi, lo) : hi \in {0, 1}, lo \in {0, 1, 100}}
    \cup {JsNumber(0, -1), JsBigInt(0, -1)}
    \cup {JsBigInt(hi, lo) : hi \in {0, 1}, lo \in {0, 1, 100}}

\* the service state of a specification that only applies a function
Quiescent ==
    /\ variant = "swap"
    /\ env = [PRIVATE_KEY |-> "0xkey1", RPC_URL |-> "https://rpc",
              STABLE_SWAP_ADDRESS |-> "0xStableSwap"]
    /\ proc = "loading"
    /\ signerAccount = NoAccount
    /\ pending = [slot \in Slots |-> Idle]
    /\ req = NoReq
    /\ res = NoRes
    /\ reads = 0
    /\ rpc = NoReply

InitAmount == Quiescent /\ arg \in AmountValues /\ ret = NoArg

CallRequireAmount ==
    /\ ret = NoArg
    /\ ret' = requireAmount(arg)
    /\ UNCHANGED <<variant, env, proc, signerAccount, pending, req, res, reads, rpc, arg>>

SpecAmount == InitAmount /\ [][CallRequireAmount]_vars

\* ---------------------------------------------------------------------
\* Chain registry and request chain resolver of the multichain deployment
\* (README "Chain Selection"; the resolver follows the specification 4.1)
\* ---------------------------------------------------------------------
ChainRegistry ==
    {[alias |-> "base", numericId |-> BaseChainId],
     [alias |-> "etherlink", numericId |-> EtherlinkChainId]}

\* the empty string stands for a hint the request does not carry
NoHint == ""

\* a hint matches an entry by its alias, else by its numeric id
MatchingChains(hint) ==
    LET byAlias == {c \in ChainRegistry : c.alias = hint}
    IN  IF byAlias # {} THEN byAlias
        ELSE {c \in ChainRegistry : NatToString(c.numericId) = hint}

ChainThrown(name) ==
    [ok |-> FALSE, chain |-> [alias |-> "", numericId |-> 0], byDefault |-> FALSE, err |-> name]
ChainValue(c, byDefault) == [ok |-> TRUE, chain |-> c, byDefault |-> byDefault, err |-> ""]

\* the hint that governs: query/body chain, then chainId, then the header
GoverningHint(input) ==
    IF input.chain # NoHint THEN input.chain
    ELSE IF input.chainId # NoHint THEN input.chainId
    ELSE input.header

resolveChainLenient(input) ==
    LET hint == GoverningHint(input)
        found == MatchingChains(IF hint = NoHint THEN input.default ELSE hint)
    IN  IF found = {}
            THEN ChainValue(CHOOSE c \in ChainRegistry : c.alias = input.default, TRUE)
            ELSE ChainValue(CHOOSE c \in found : TRUE, hint = NoHint)

resolveChain(input) ==
    LET hint == GoverningHint(input) IN
    IF hint = NoHint
        THEN ChainValue(CHOOSE c \in ChainRegistry : c.alias = input.default, TRUE)
    ELSE IF MatchingChains(hint) = {} THEN ChainThrown("UnknownChain")
    ELSE ChainValue(CHOOSE c \in MatchingChains(hint) : TRUE, FALSE)

ChainInputs ==
    [chain : {NoHint, "base", "etherlink", "Base", "84532", "lisk"},
     chainId : {NoHint, "84532", "127823", "4202"},
     header : {NoHint, "base", "etherlink", "lisk"},
     default : {"base", "etherlink"}]

InitChain == Quiescent /\ arg \in ChainInputs /\ ret = NoArg

ResolveChain ==
    /\ ret = NoArg
    /\ ret' = resolveChain(arg)
    /\ UNCHANGED <<variant, env, proc, signerAccount, pending, req, res, reads, rpc, arg>>

SpecChain == InitChain /\ [][ResolveChain]_vars

\* =====================================================================
\* Properties
\* =====================================================================
SignBody == req.body
\* the digest signPaymasterData computes for the recorded /sign request
SignedDigest ==
    keccak256(encodeAbiParameters(variant = "swap",
        SignBody.payerAddress, SignBody.tokenAddress,
        ToBigInt(ValidUntilOrDefault(SignBody.validUntil, req.now)).v,
        ToBigInt(ValidAfterOrDefault(SignBody.validAfter)).v,
        Truthy(SignBody.isActivation)).data)

SignSucceeded == req.route = "/sign" /\ res.status = 200

\* C1 as stated: the signature of a successful /sign is the service key's
\* signature over the Keccak-256 digest of the encoded tuple itself, with no
\* message prefix and no second hash.
C1_SignsRawDigest ==
    SignSucceeded =>
        res.body.signature = ecdsaSign(signerAccount.key, RawHash(SignedDigest))

\* C1 amended: the signature of a successful /sign is the service key's
\* signature over keccak256(EIP-191 prefix ++ digest), the personal-message
\* hash of the 32-byte digest of the encoded tuple.
C1_SignsPrefixedDigest ==
    SignSucceeded =>
        res.body.signature =
            ecdsaSign(signerAccount.key,
                      [prefix |-> EIP191Prefix, digest |-> SignedDigest])

C1_Witness ==
    /\ SignSucceeded
    /\ res.body.signature.signer = env.PRIVATE_KEY
    /\ res.body.signature.over.digest = SignedDigest

\* "syntactically valid 20-byte address (checksum-normalizable)"
WellFormedAddress(a) == a.t = "string" /\ a.form \in {"lower", "checksum", "badsum"}

\* C2: a POST /sign whose payerAddress or tokenAddress is missing or is not a
\* well-formed 20-byte address is answered with a 400-class status, never a
\* 500-class one.
C2_BadAddressIsClientError ==
    (/\ req.route = "/sign"
     /\ \/ ~WellFormedAddress(req.body.payerAddress)
        \/ ~WellFormedAddress(req.body.tokenAddress))
    => res.status \in 400..499

NoHintAtAll(input) ==
    input.chain = NoHint /\ input.chainId = NoHint /\ input.header = NoHint

BuildRequest == req.route = "/swap/build"

\* C4: a POST /swap/build that passes requireAddress and requireAmount on all
\* four fields never fails afterwards: encodeFunctionData succeeds and the
\* calldata response is returned, also for amounts at or above 2^256.
C4_BuildFailsOnlyInValidation ==
    (BuildRequest /\ ~BuildFailsInValidation(req.body)) => res.status = 200

\* what the claim counts as a strictly positive integer input: a string,
\* number or big integer (never a boolean) whose integer value is above zero
DenotesPositiveInteger(v) ==
    /\ v.t \in {"string", "number", "bigint"}
    /\ ToBigInt(v).ok
    /\ ~IsNonPositive(ToBigInt(v).v)

\* C5: requireAmount returns a value exactly for inputs that denote a
\* strictly positive integer, and then returns that integer; it throws for
\* zero, negatives, non-integers, non-numeric strings, null, undefined and
\* booleans.
C5_OnlyPositiveIntegers ==
    ret # NoArg =>
        /\ ret.ok <=> DenotesPositiveInteger(arg)
        /\ ret.ok => ret.v = ToBigInt(arg).v

ReadFailed == req.route = "/swap/quote" /\ rpc.kind \in {"rpc", "http", "timeout"}

\* C6: a GET /swap/quote whose on-chain read failed is answered with a
\* 400-class quote_failed error whose message is the reason of the failure,
\* and the process is still listening afterwards.
C6_ReadFailureIsQuoteFailed ==
    ReadFailed =>
        /\ res.status \in 400..499
        /\ res.body.error = "quote_failed"
        /\ res.body.message = rpc.reason
        /\ proc = "listening"

C6_Witness ==
    /\ ReadFailed
    /\ rpc.code = 3
    /\ res.body.message = "execution reverted: unsupported pair"
    /\ \E slot \in Slots : pending[slot] # Idle

\* C7 as stated: no GET /swap/quote request sends more than one read to the
\* RPC endpoint.
C7_AtMostOneRead ==
    /\ reads <= 1
    /\ \A slot \in Slots : pending[slot] # Idle => pending[slot].sent <= 1

\* C7 amended: a GET /swap/quote request sends at most 1 + RetryCount reads;
\* a failed read is reported without another attempt when the failure is not
\* retryable, and a retryable failure is reported only once RetryCount
\* retries have failed.
C7_ReadsBoundedByRetryCount ==
    /\ reads <= 1 + RetryCount
    /\ \A slot \in Slots :
          pending[slot] # Idle =>
              /\ pending[slot].sent = pending[slot].count + 1
              /\ pending[slot].sent <= 1 + RetryCount
    /\ (ReadFailed /\ shouldRetry(rpc)) => reads = 1 + RetryCount

C7_Witness == ReadFailed /\ shouldRetry(rpc) /\ reads = 1 + RetryCount

Answered == res # NoRes

\* C8 as stated: the service listens, or has answered a request, only if the
\* private key, the RPC endpoint and the StableSwap address were all present
\* at boot.
C8_ServesOnlyWithAllThree ==
    (proc = "listening" \/ Answered) =>
        /\ env.PRIVATE_KEY # ""
        /\ env.RPC_URL # ""
        /\ env.STABLE_SWAP_ADDRESS # ""

\* C8 amended: the service listens, or has answered a request, only if every
\* value its variant requires was present at boot: the private key in both
\* variants, the RPC endpoint and the StableSwap address in the variant that
\* has the swap endpoints.  Otherwise the process has exited.
C8_ServesOnlyWithRequiredConfig ==
    /\ (proc = "listening" \/ Answered) =>
          /\ env.PRIVATE_KEY # ""
          /\ variant = "swap" => (env.RPC_URL # "" /\ env.STABLE_SWAP_ADDRESS # "")
    /\ (proc # "loading" /\ variant = "swap"
          /\ (env.PRIVATE_KEY = "" \/ env.RPC_URL = "" \/ env.STABLE_SWAP_ADDRESS = ""))
        => (proc = "exited" /\ ~Answered)

C8_Witness ==
    /\ proc = "exited"
    /\ variant = "swap"
    /\ env.PRIVATE_KEY \in ValidKeys
    /\ env.RPC_URL # ""
    /\ env.STABLE_SWAP_ADDRESS = ""
    /\ ~Answered

\* C9: while the service listens the signer account is the one derived from
\* the configured key at startup, and every /health and /signer response
\* carries that account's address, whatever was requested before and while
\* quote reads are failing.
C9_SignerFixed ==
    /\ proc = "listening" =>
          /\ signerAccount.key = env.PRIVATE_KEY
          /\ signerAccount.address = publicKeyToAddress(env.PRIVATE_KEY)
    /\ req.route \in {"/health", "/signer"} =>
          res.body.signerAddress = publicKeyToAddress(env.PRIVATE_KEY)

C9_Witness ==
    /\ req.route = "/signer"
    /\ res.body.signerAddress = "0xSigner2"
    /\ \E slot \in Slots : pending[slot] # Idle /\ pending[slot].sent = 1 + RetryCount

\* C10: every error response (status 400 or above) has both an error field
\* and a message field.
C10_ErrorShape ==
    res.status >= 400 => {"error", "message"} \subseteq DOMAIN res.body

\* a field the request body carries
Supplied(v) == v.t # "undefined"

\* the tuple under the digest a successful /sign signed
SignedTuple == res.body.signature.over.digest.keccak

\* C11: in the tuple a successful /sign signed, validUntil, validAfter and
\* isActivation are the values the request supplied, and the defaults
\* (now + 3600, 0, false) only where the request supplied none; a supplied
\* validUntil of 0 is signed as 0.
C11_SuppliedFieldsAreSigned ==
    SignSucceeded =>
        /\ SignedTuple[3] = IF Supplied(SignBody.validUntil)
                               THEN ToBigInt(SignBody.validUntil).v
                               ELSE Small(req.now + DefaultValidity)
        /\ SignedTuple[4] = IF Supplied(SignBody.validAfter)
                               THEN ToBigInt(SignBody.validAfter).v
                               ELSE Small(0)
        /\ variant = "swap" =>
              SignedTuple[5] = IF Supplied(SignBody.isActivation)
                                  THEN SignBody.isActivation.b
                                  ELSE FALSE

\* C12: the calldata of a successful /swap/build is swap(amountIn, tokenIn,
\* tokenOut, minAmountOut), the read of a /swap/quote is getSwapQuote(tokenIn,
\* tokenOut, amountIn), each argument being the validated request field of
\* that name, and a quote answer reports the three returned values in the
\* order amountOut, fee, totalUserPays.
C12_ArgumentOrder ==
    /\ (BuildRequest /\ res.status = 200) =>
          /\ Len(res.body.data) = 5
          /\ res.body.data[1] = "swap"
          /\ res.body.data[2] = requireAmount(req.body.amountIn).v
          /\ res.body.data[3] = requireAddress(req.body.tokenIn).a.id
          /\ res.body.data[4] = requireAddress(req.body.tokenOut).a.id
          /\ res.body.data[5] = requireAmount(req.body.minAmountOut).v
    /\ \A slot \in Slots :
          pending[slot] # Idle =>
              LET query == pending[slot].request.query
                  call == pending[slot].call
              IN  /\ Len(call) = 4
                  /\ call[1] = "getSwapQuote"
                  /\ call[2] = requireAddress(query.tokenIn).a.id
                  /\ call[3] = requireAddress(query.tokenOut).a.id
                  /\ call[4] = requireAmount(query.amountIn).v
    /\ (req.route = "/swap/quote" /\ res.status = 200) =>
          /\ res.body.amountOut = BigIntToString(rpc.data[1])
          /\ res.body.fee = BigIntToString(rpc.data[2])
          /\ res.body.totalUserPays = BigIntToString(rpc.data[3])
          /\ res.body.amountIn = BigIntToString(requireAmount(req.query.amountIn).v)

C12_Witness ==
    /\ BuildRequest
    /\ res.status = 200
    /\ res.body.data[2] # res.body.data[5]
    /\ req.body.tokenIn.form = "badsum"
    /\ \E slot \in Slots : pending[slot] # Idle

TimedOut == ReadFailed /\ rpc.kind = "timeout"

\* C13: every GET /swap/quote suspended on its read is eventually answered,
\* also when the endpoint never replies: the read of each suspended request
\* can always end by its own timeout, whatever the other requests wait for,
\* and a request whose reads all timed out is answered 400 quote_failed.
C13_QuoteEventuallyAnswered ==
    /\ [](\A slot \in Slots : pending[slot] # Idle => ENABLED ReadEnds(slot, Timeout))
    /\ [](TimedOut =>
            /\ res.status = 400
            /\ res.body.error = "quote_failed"
            /\ res.body.message = Timeout.reason)
    /\ \A slot \in Slots : (pending[slot] # Idle) ~> (pending[slot] = Idle)

C13_Witness ==
    /\ TimedOut
    /\ reads = 1 + RetryCount
    /\ res.status = 400
    /\ \E slot \in Slots : pending[slot] # Idle

====
